---------------------------- MODULE Spec2Model ----------------------------
(***************************************************************************)
(* A model of main.py, the Telegram -> Discord forwarder.                  *)
(*                                                                         *)
(* The program is one asyncio event loop: the coroutine main(), and one    *)
(* on_new_message coroutine per inbound Telegram update (Telethon creates  *)
(* a task per update unless sequential_updates is set, which main.py does  *)
(* not set).  Coroutines interleave only at their await points.  The two   *)
(* delivery functions are synchronous (requests.post, time.sleep): while   *)
(* one of them runs, the loop runs nothing else.                           *)
(*                                                                         *)
(* Python strings are sequences of one-character strings.  None and ""     *)
(* are both the empty sequence where the code only tests truthiness.       *)
(* Durations are in milliseconds.                                          *)
(***************************************************************************)
EXTENDS Integers, Sequences, FiniteSets, TLC

VARIABLES
    env,          \* os.environ: TG_CHANNEL and TG_CHANNELS
    tty,          \* sys.stdin.isatty()
    TARGETS,      \* the parsed channel list
    connected,    \* the Telegram session's transport is up
    authorized,   \* the Telegram session is logged in
    mainpc,       \* where main() is
    startCalled,  \* client.start() has been issued
    sawConnected, \* client.is_connected() returned True to main()
    sawAuthorized,\* client.is_user_authorized() returned True to main()
    reason,       \* which failure path main() took, "" when none
    err,          \* main()'s local err, the text of its startup error
    mainPosts,    \* main()'s post_text_to_discord calls, in order: "error"
                  \* for a startup error, "announce" for the announcement
    call,         \* the delivery call in progress, NoCall when none
    updates,      \* the updates Telegram may deliver in this run
    events,       \* the inbound updates: one on_new_message task each
    files,        \* the temporary files that exist on disk
    exitStatus    \* the process's exit status, -1 while it runs

vars == <<env, tty, TARGETS, connected, authorized, mainpc, startCalled,
          sawConnected, sawAuthorized, reason, err, mainPosts, call,
          updates,
          events, files, exitStatus>>

\* fixed once the module is loaded
config == <<env, tty, TARGETS, updates>>

---------------------------------------------------------------------------
(* Bounds of the model.                                                    *)

\* how many updates arrive in one run
MaxEvents == 2

\* the length of the longest message text an update carries
LongLen == 1990

\* the length of the longest TG_CHANNEL / TG_CHANNELS value
MaxChars == 4

---------------------------------------------------------------------------
(* Python string helpers.                                                  *)

\* s[:n]
Take(s, n) == SubSeq(s, 1, IF Len(s) < n THEN Len(s) ELSE n)

\* s.startswith(p)
StartsWith(s, p) == Len(s) >= Len(p) /\ SubSeq(s, 1, Len(p)) = p

\* s.endswith(p)
EndsWith(s, p) ==
    Len(s) >= Len(p) /\ SubSeq(s, Len(s) - Len(p) + 1, Len(s)) = p

\* c * n
Rep(c, n) == [i \in 1..n |-> c]

\* the characters str.strip() removes
Whitespace == {" ", "\n", "\t", "\r"}

RECURSIVE LStrip(_)
LStrip(s) ==
    IF s # <<>> /\ Head(s) \in Whitespace THEN LStrip(Tail(s)) ELSE s

RECURSIVE RStrip(_)
RStrip(s) ==
    IF s # <<>> /\ s[Len(s)] \in Whitespace
    THEN RStrip(SubSeq(s, 1, Len(s) - 1)) ELSE s

\* s.strip()
Strip(s) == RStrip(LStrip(s))

\* the element of a set of one.  TheOne({e(x) : x \in {v}}) is e(v) with v
\* evaluated once: a local variable, assigned once and then read (TLC
\* evaluates an operator's argument anew at each use when it computes
\* ENABLED)
TheOne(S) == CHOOSE r \in S : TRUE

\* s.strip(chars): from the first to the last character not in chars
StripChars(s, cs) ==
    LET keep == {k \in 1..Len(s) : s[k] \notin cs}
    IN IF keep = {} THEN <<>>
       ELSE SubSeq(s, CHOOSE k \in keep : \A j \in keep : k <= j,
                      CHOOSE k \in keep : \A j \in keep : k >= j)

\* s.split(sep), sep one character: the parts between the separators,
\* empty ones included
Split(s, sep) ==
    LET cuts == {0, Len(s) + 1} \cup {k \in 1..Len(s) : s[k] = sep}
        cut(n) == CHOOSE k \in cuts : Cardinality({j \in cuts : j < k}) = n
    IN [n \in 1..(Cardinality(cuts) - 1) |->
           SubSeq(s, cut(n - 1) + 1, cut(n) - 1)]

Digits == {"0", "1", "2", "3", "4", "5", "6", "7", "8", "9"}

DigitValue(c) ==
    CASE c = "0" -> 0 [] c = "1" -> 1 [] c = "2" -> 2 [] c = "3" -> 3
      [] c = "4" -> 4 [] c = "5" -> 5 [] c = "6" -> 6 [] c = "7" -> 7
      [] c = "8" -> 8 [] c = "9" -> 9

\* the number the first n characters of ds write, underscores skipped
RECURSIVE DigitsToNat(_, _)
DigitsToNat(ds, n) ==
    IF n = 0 THEN 0
    ELSE IF ds[n] = "_" THEN DigitsToNat(ds, n - 1)
    ELSE 10 * DigitsToNat(ds, n - 1) + DigitValue(ds[n])

\* decimal digits with single underscores between them
WellFormed(ds) ==
    /\ ds # <<>>
    /\ \A k \in 1..Len(ds) : ds[k] \in Digits \cup {"_"}
    /\ ds[1] # "_" /\ ds[Len(ds)] # "_"
    /\ \A k \in 1..(Len(ds) - 1) : ~(ds[k] = "_" /\ ds[k + 1] = "_")

\* int(t) of a str without white space around: an optional sign, then
\* the digits
int_stripped(t) ==
    TheOne({ IF ~WellFormed(ds) THEN [ok |-> FALSE, n |-> 0]
             ELSE [ok |-> TRUE,
                   n |-> IF Head(t) = "-" THEN 0 - DigitsToNat(ds, Len(ds))
                         ELSE DigitsToNat(ds, Len(ds))] :
             ds \in {IF t # <<>> /\ Head(t) \in {"-", "+"} THEN Tail(t)
                     ELSE t} })

\* int(s) of a str; ok is FALSE where Python raises ValueError
int(s) == TheOne({int_stripped(t) : t \in {Strip(s)}})

Digit(d) ==
    CASE d = 0 -> "0" [] d = 1 -> "1" [] d = 2 -> "2" [] d = 3 -> "3"
      [] d = 4 -> "4" [] d = 5 -> "5" [] d = 6 -> "6" [] d = 7 -> "7"
      [] d = 8 -> "8" [] d = 9 -> "9"

RECURSIVE NatToStr(_)
NatToStr(n) ==
    IF n < 10 THEN <<Digit(n)>> ELSE NatToStr(n \div 10) \o <<Digit(n % 10)>>

\* str(n) of an int
IntToStr(n) == IF n < 0 THEN <<"-">> \o NatToStr(0 - n) ELSE NatToStr(n)

\* sep.join(parts)
RECURSIVE Join(_, _)
Join(sep, parts) ==
    IF parts = <<>> THEN <<>>
    ELSE IF Len(parts) = 1 THEN parts[1]
    ELSE parts[1] \o sep \o Join(sep, Tail(parts))

---------------------------------------------------------------------------
(* String literals of main.py.                                             *)

\* \n(Attachment too large to upload)|  src/main.py:247
NOTICE ==
    <<"\n", "(", "A", "t", "t", "a", "c", "h", "m", "e", "n", "t", " ", "t",
      "o", "o", " ", "l", "a", "r", "g", "e", " ", "t", "o", " ", "u", "p",
      "l", "o", "a", "d", ")">>

\* Startup error: interactive start() failed: |  src/main.py:300
ERR_START ==
    <<"S", "t", "a", "r", "t", "u", "p", " ", "e", "r", "r", "o", "r", ":",
      " ", "i", "n", "t", "e", "r", "a", "c", "t", "i", "v", "e", " ", "s",
      "t", "a", "r", "t", "(", ")", " ", "f", "a", "i", "l", "e", "d", ":",
      " ">>

\* Startup error: connect() timed out (network blocked/blackholed?).|  src/main.py:310
ERR_TIMEOUT ==
    <<"S", "t", "a", "r", "t", "u", "p", " ", "e", "r", "r", "o", "r", ":",
      " ", "c", "o", "n", "n", "e", "c", "t", "(", ")", " ", "t", "i", "m",
      "e", "d", " ", "o", "u", "t", " ", "(", "n", "e", "t", "w", "o", "r",
      "k", " ", "b", "l", "o", "c", "k", "e", "d", "/", "b", "l", "a", "c",
      "k", "h", "o", "l", "e", "d", "?", ")", ".">>

\* Startup error: failed to connect to Telegram: |  src/main.py:315
ERR_CONNECT ==
    <<"S", "t", "a", "r", "t", "u", "p", " ", "e", "r", "r", "o", "r", ":",
      " ", "f", "a", "i", "l", "e", "d", " ", "t", "o", " ", "c", "o", "n",
      "n", "e", "c", "t", " ", "t", "o", " ", "T", "e", "l", "e", "g", "r",
      "a", "m", ":", " ">>

\* Startup error: client not connected after connect().|  src/main.py:323
ERR_NOT_CONNECTED ==
    <<"S", "t", "a", "r", "t", "u", "p", " ", "e", "r", "r", "o", "r", ":",
      " ", "c", "l", "i", "e", "n", "t", " ", "n", "o", "t", " ", "c", "o",
      "n", "n", "e", "c", "t", "e", "d", " ", "a", "f", "t", "e", "r", " ",
      "c", "o", "n", "n", "e", "c", "t", "(", ")", ".">>

\* Startup error: connection state check failed: |  src/main.py:328
ERR_STATE_CHECK ==
    <<"S", "t", "a", "r", "t", "u", "p", " ", "e", "r", "r", "o", "r", ":",
      " ", "c", "o", "n", "n", "e", "c", "t", "i", "o", "n", " ", "s", "t",
      "a", "t", "e", " ", "c", "h", "e", "c", "k", " ", "f", "a", "i", "l",
      "e", "d", ":", " ">>

\* Startup error: authorization check failed: |  src/main.py:337
ERR_AUTH_CHECK ==
    <<"S", "t", "a", "r", "t", "u", "p", " ", "e", "r", "r", "o", "r", ":",
      " ", "a", "u", "t", "h", "o", "r", "i", "z", "a", "t", "i", "o", "n",
      " ", "c", "h", "e", "c", "k", " ", "f", "a", "i", "l", "e", "d", ":",
      " ">>

\* Startup error: session not authorized and no TTY available. Run 'python main.py' once in an interactive shell to log in.|  src/main.py:342  (each backquote written as ')
ERR_NOT_AUTHORIZED ==
    <<"S", "t", "a", "r", "t", "u", "p", " ", "e", "r", "r", "o", "r", ":",
      " ", "s", "e", "s", "s", "i", "o", "n", " ", "n", "o", "t", " ", "a",
      "u", "t", "h", "o", "r", "i", "z", "e", "d", " ", "a", "n", "d", " ",
      "n", "o", " ", "T", "T", "Y", " ", "a", "v", "a", "i", "l", "a", "b",
      "l", "e", ".", " ", "R", "u", "n", " ", "'", "p", "y", "t", "h", "o",
      "n", " ", "m", "a", "i", "n", ".", "p", "y", "'", " ", "o", "n", "c",
      "e", " ", "i", "n", " ", "a", "n", " ", "i", "n", "t", "e", "r", "a",
      "c", "t", "i", "v", "e", " ", "s", "h", "e", "l", "l", " ", "t", "o",
      " ", "l", "o", "g", " ", "i", "n", ".">>

\* Started listening to channels: |  src/main.py:353
ANNOUNCE_HEAD ==
    <<"S", "t", "a", "r", "t", "e", "d", " ", "l", "i", "s", "t", "e", "n",
      "i", "n", "g", " ", "t", "o", " ", "c", "h", "a", "n", "n", "e", "l",
      "s", ":", " ">>

\* https://t.me/|  src/main.py:139
TME ==
    <<"h", "t", "t", "p", "s", ":", "/", "/", "t", ".", "m", "e", "/">>

\* image/|  src/main.py:167
IMAGE_SLASH ==
    <<"i", "m", "a", "g", "e", "/">>

\* Telegram|  src/main.py:226
TELEGRAM ==
    <<"T", "e", "l", "e", "g", "r", "a", "m">>

---------------------------------------------------------------------------
(* Program constants.                                                      *)

\* text[:2000], content[:2000]
CONTENT_LIMIT == 2000

\* for attempt in range(5)
ATTEMPTS == 5

\* MAX_UPLOAD_BYTES, with its default of 8 MiB
MAX_UPLOAD_BYTES == 8 * 1024 * 1024

---------------------------------------------------------------------------
(* The Discord webhook: what one requests.post can come back with.         *)

\* the Retry-After header of a response; Absent when there is none
Absent == "<absent>"

RetryAfterValues == {Absent, "2.5", "abc", "-1"}

\* a response with a status code, or a requests.RequestException
Response(status, retry_after) ==
    [exc |-> FALSE, status |-> status, retry_after |-> retry_after]

RequestException == [exc |-> TRUE, status |-> 0, retry_after |-> Absent]

Responses ==
    {Response(s, Absent) : s \in {200, 204, 500}}
      \cup {Response(429, h) : h \in RetryAfterValues}
      \cup {RequestException}

\* requests' Response.ok: no 4xx or 5xx status
r_ok(r) == r.status < 400

\* r.headers.get("Retry-After", "1")
headers_get(r, default) ==
    IF r.retry_after = Absent THEN default ELSE r.retry_after

\* float(s), in milliseconds; ok is FALSE where Python raises ValueError
float(s) ==
    CASE s = "1" -> [ok |-> TRUE, ms |-> 1000]
      [] s = "2.5" -> [ok |-> TRUE, ms |-> 2500]
      [] s = "-1" -> [ok |-> TRUE, ms |-> 0 - 1000]
      [] OTHER -> [ok |-> FALSE, ms |-> 0]

---------------------------------------------------------------------------
(* The delivery functions.  A call record is the frame of one call:        *)
(*   fn       "text" (post_text_to_discord) or "file" (post_file_...)      *)
(*   by, ev   the caller: "main", or "handler" of update ev                *)
(*   content  the content field of the request, has_content whether the    *)
(*            request carries one                                          *)
(*   path     the file to upload (0 for a text call)                       *)
(*   attempt  the loop index of the next iteration                         *)
(*   posts    the requests.post calls issued so far                        *)
(*   last     the outcome of the latest requests.post                      *)
(*   slept    the time.sleep calls of the latest iteration                 *)
(*   logged   the logger calls of the latest iteration                     *)
(*   result   "running", then "ok" (returned on a success), "exhausted"    *)
(*            (returned after the loop ran out) or "raised"                *)

NoResponse == [exc |-> FALSE, status |-> 0, retry_after |-> Absent]

\* logger.warning("Discord 429 rate limit: retrying after %.2fs", wait)
RateLimitWarning == [level |-> "warning", msg |-> "429 rate limit: retrying"]

\* logger.error("Discord text post failed (status %s): %s", ...)
PostFailedError == [level |-> "error", msg |-> "post failed (status)"]

\* logger.warning("Discord post exception: %s", e)
PostExceptionWarning == [level |-> "warning", msg |-> "post exception"]

NoCall ==
    [fn |-> "none", by |-> "none", ev |-> 0, content |-> <<>>,
     has_content |-> FALSE, path |-> 0, attempt |-> 0, posts |-> 0,
     last |-> NoResponse, slept |-> <<>>, logged |-> <<>>,
     result |-> "none"]

\* payload = {"content": text[:2000] or "."}
post_text_to_discord(text, by, ev) ==
    [fn |-> "text", by |-> by, ev |-> ev,
     content |-> IF Take(text, CONTENT_LIMIT) = <<>> THEN <<".">>
                 ELSE Take(text, CONTENT_LIMIT),
     has_content |-> TRUE, path |-> 0, attempt |-> 0, posts |-> 0,
     last |-> NoResponse, slept |-> <<>>, logged |-> <<>>,
     result |-> "running"]

\* data = {}; if content: data["content"] = content[:2000]
post_file_to_discord(file_path, content, by, ev) ==
    [fn |-> "file", by |-> by, ev |-> ev,
     content |-> IF content # <<>> THEN Take(content, CONTENT_LIMIT) ELSE <<>>,
     has_content |-> content # <<>>, path |-> file_path, attempt |-> 0,
     posts |-> 0, last |-> NoResponse, slept |-> <<>>, logged |-> <<>>,
     result |-> "running"]

\* a loop that runs one iteration too many
next_attempt_off_by_one(c) ==
    [c EXCEPT !.attempt = @ + 1,
              !.result = IF c.attempt + 1 <= ATTEMPTS THEN "running"
                         ELSE "exhausted"]

\* the end of one loop iteration that did not return: the next index, or
\* the end of range(5) and the function's return
next_attempt(c) ==
    [c EXCEPT !.attempt = @ + 1,
              !.result = IF c.attempt + 1 < ATTEMPTS THEN "running"
                         ELSE "exhausted"]

\* time.sleep(1 + attempt) at the end of the loop body
backoff(c) == next_attempt([c EXCEPT !.slept = <<1000 * (1 + c.attempt)>>])

\* the 429 branch: wait = float(...); logger.warning(...);
\* time.sleep(wait); continue
rate_limited(c, r) ==
    LET wait == float(headers_get(r, "1")) IN
    IF ~wait.ok THEN [c EXCEPT !.result = "raised"]        \* ValueError
    ELSE IF wait.ms < 0                                     \* sleep(-1)
    THEN [c EXCEPT !.result = "raised", !.logged = <<RateLimitWarning>>]
    ELSE next_attempt([c EXCEPT !.slept = <<wait.ms>>,
                                !.logged = <<RateLimitWarning>>])

\* one iteration of post_text_to_discord's loop, the POST answered by r
post_text_attempt(c, r) ==
    LET p == [c EXCEPT !.posts = @ + 1, !.last = r, !.slept = <<>>,
                       !.logged = <<>>] IN
    IF r.exc THEN backoff([p EXCEPT !.logged = <<PostExceptionWarning>>])
    ELSE IF r.status = 204 \/ r_ok(r) THEN [p EXCEPT !.result = "ok"]
    ELSE IF r.status = 429 THEN rate_limited(p, r)
    ELSE backoff([p EXCEPT !.logged = <<PostFailedError>>])

\* one iteration of post_file_to_discord's loop; open() raises when the
\* file is not there
post_file_attempt(c, r, onDisk) ==
    LET p == [c EXCEPT !.posts = @ + 1, !.last = r, !.slept = <<>>,
                       !.logged = <<>>] IN
    IF c.path \notin onDisk
    THEN [c EXCEPT !.result = "raised", !.slept = <<>>, !.logged = <<>>]
    ELSE IF r.exc THEN backoff([p EXCEPT !.logged = <<PostExceptionWarning>>])
    ELSE IF r_ok(r) \/ r.status = 204 THEN [p EXCEPT !.result = "ok"]
    ELSE IF r.status = 429 THEN rate_limited(p, r)
    ELSE backoff([p EXCEPT !.logged = <<PostFailedError>>])

\* delivery calls that are awaited: the event loop resumes other
\* coroutines while one is in progress
Idle_async == exitStatus = 0 - 1

\* the event loop is free to resume a coroutine: no delivery call is in
\* progress and the process has not exited
Idle == call.fn = "none" /\ exitStatus = 0 - 1

\* the loop of the call in progress takes one iteration; nothing else runs
\* until the call has returned or raised
DeliveryAttempt ==
    /\ call.result = "running"
    /\ \E r \in Responses :
         call' = IF call.fn = "text" THEN post_text_attempt(call, r)
                 ELSE post_file_attempt(call, r, files)
    /\ UNCHANGED <<config, connected, authorized, mainpc, startCalled,
                   sawConnected, sawAuthorized, reason, err, mainPosts, events,
                   files, exitStatus>>

---------------------------------------------------------------------------
(* Targets and the startup announcement.                                   *)

\* a target is '@username' (or another string) or a numeric id
StrTarget(s) == [is_int |-> FALSE, s |-> s, n |-> 0]
IntTarget(n) == [is_int |-> TRUE, s |-> <<>>, n |-> n]

\* _to_target's None, for a part with nothing in it
NoneTarget == [is_int |-> FALSE, s |-> <<>>, n |-> 0]

\* _to_target from its second line on, s the stripped part
to_target_stripped(s) ==
    IF s = <<>> THEN NoneTarget
    ELSE IF StartsWith(s, <<"@">>) THEN StrTarget(s)
    ELSE TheOne({ IF i.ok THEN IntTarget(i.n) ELSE StrTarget(s) :
                  i \in {int(s)} })

\* Parse one target: '@username' stays str, numeric ids become int.
to_target(s0) ==
    TheOne({ to_target_stripped(s) :
             s \in {StripChars(StripChars(Strip(s0), {"\""}), {"'"})} })

\* the targets of the parts, in order, without the None ones
collect(parts) ==
    SelectSeq([n \in 1..Len(parts) |-> to_target(parts[n])],
              LAMBDA t : t # NoneTarget)

parse_targets(single, multi) ==
    IF multi # <<>>
    THEN TheOne({collect(parts) : parts \in {Split(multi, ",")}})
    ELSE IF single # <<>> THEN collect(<<single>>)
    ELSE <<>>

\* str(target)
str_target(t) == IF t.is_int THEN IntToStr(t.n) ELSE t.s

\* what client.get_entity(target) can give: an entity, or an exception
Entity(username, title, id) ==
    [raised |-> FALSE, username |-> username, title |-> title, id |-> id]

Entities ==
    { Entity(<<"c", "h">>, <<"C", "h">>, 1001),
      Entity(<<>>, <<"C", "h">>, 1001),
      Entity(<<>>, <<>>, 1001),
      [raised |-> TRUE, username |-> <<>>, title |-> <<>>, id |-> 0] }

\* _display_name_for_target, with the outcome of its get_entity
display_name_for_target(target, ent) ==
    IF ~target.is_int /\ StartsWith(target.s, <<"@">>) THEN target.s
    ELSE IF ent.raised THEN str_target(target)
    ELSE IF ent.username # <<>> THEN <<"@">> \o ent.username
    ELSE IF ent.title # <<>> THEN <<"[">> \o ent.title \o <<"]">>
    ELSE IntToStr(ent.id)

\* "Started listening to channels: " + ", ".join(displays)
announcement(displays) == ANNOUNCE_HEAD \o Join(<<",", " ">>, displays)

\* os.environ with its two channel settings
Env(single, multi) == [TG_CHANNEL |-> single, TG_CHANNELS |-> multi]

\* TG_CHANNELS='@a,-1001'
EnvTwoChannels ==
    Env(<<>>, <<"@", "a", ",", "-", "1", "0", "0", "1">>)

\* TG_CHANNELS=' , ': parts, and no channel in them
EnvNoChannel == Env(<<>>, <<" ", ",", " ">>)

\* the channel lists of the runs explored
TargetLists ==
    { <<StrTarget(<<"@", "a">>), IntTarget(0 - 1001)>> }

\* str(e) of a caught exception
str_e == <<"b", "o", "o", "m">>


\* the characters of the channel settings explored
EnvChars == {"@", "a", "1", "-", ",", " ", "'"}

\* the strings over EnvChars of up to n characters
RECURSIVE EnvStrings(_)
EnvStrings(n) ==
    IF n = 0 THEN {<<>>}
    ELSE EnvStrings(n - 1)
           \cup {Append(s, c) : s \in {t \in EnvStrings(n - 1) : Len(t) = n - 1},
                                c \in EnvChars}
---------------------------------------------------------------------------
(* Message formatting.                                                     *)

\* PREFIX = os.environ.get("DISCORD_PREFIX", ""): the default
PREFIX == <<>>

\* DISABLE_PREVIEW: the default, unset
DISABLE_PREVIEW == FALSE

build_link(username, message_id) ==
    IF username # <<>> /\ message_id # 0
    THEN LET raw == TME \o username \o <<"/">> \o IntToStr(message_id)
         IN IF DISABLE_PREVIEW THEN <<"<">> \o raw \o <<">">> ELSE raw
    ELSE <<>>

build_message(title, text, link) ==
    Join(<<"\n">>,
         <<PREFIX \o <<"[">> \o title \o <<"]">>>>
           \o (IF text # <<>> THEN <<<<>>, text>> ELSE <<>>)
           \o (IF link # <<>> THEN <<<<>>, link>> ELSE <<>>))

---------------------------------------------------------------------------
(* Inbound updates.  An update is msg = event.message:                     *)
(*   text   msg.message                                                    *)
(*   id     msg.id                                                         *)
(*   media  msg.media: its type ("none", "photo" for MessageMediaPhoto,    *)
(*          "document" for MessageMediaDocument, "other"), the document's  *)
(*          mime_type, and the size in bytes of the downloaded file        *)
(*   chat   the chat event.get_chat() gives when it does not raise         *)

Media(type, mime, size) == [type |-> type, mime |-> mime, size |-> size]

Chat(title, username) == [title |-> title, username |-> username]

Msg(text, id, media, chat) ==
    [text |-> text, id |-> id, media |-> media, chat |-> chat]

NoMedia == Media("none", <<>>, 0)

NoMsg == Msg(<<>>, 0, NoMedia, Chat(<<>>, <<>>))

\* a test for "image" anywhere at the front, without the slash
is_image_document_loose(msg) ==
    /\ msg.media.type = "document"
    /\ StartsWith(msg.media.mime, <<"i", "m", "a", "g", "e">>)

\* True if the message document is an image (mime 'image/*')
is_image_document(msg) ==
    /\ msg.media.type = "document"
    /\ StartsWith(msg.media.mime, IMAGE_SLASH)

\* the branch on_new_message takes: the photo branch, the image document
\* branch, or neither
classify(msg) ==
    IF msg.media.type = "photo" THEN "photo"
    ELSE IF msg.media.type = "document" /\ is_image_document(msg)
    THEN "image-document"
    ELSE "none"

\* title = chat.title or chat.username or "Telegram"
title_of(chat) ==
    IF chat.title # <<>> THEN chat.title
    ELSE IF chat.username # <<>> THEN chat.username
    ELSE TELEGRAM

(* events[i] is the on_new_message task of the i-th update:                *)
(*   pc        "none" (not arrived), "get_chat" and "download" (suspended  *)
(*             at that await), "posting" (in its delivery call), then      *)
(*             "done", "raised" or "cancelled"                             *)
(*   msg       the update                                                  *)
(*   title, username   the handler's locals                                *)
(*   path      the temporary file it holds, 0 when none                    *)
(*   fetched   it has called client.download_media()                       *)
(*   calls     the delivery calls the handler has made                     *)
(*   fn        the delivery function it called, "none" when none           *)

NoEvent ==
    [pc |-> "none", msg |-> NoMsg, title |-> <<>>, username |-> <<>>,
     path |-> 0, fetched |-> FALSE, calls |-> 0, fn |-> "none"]

Arrived == {i \in DOMAIN events : events[i].pc # "none"}

\* raw_text = (msg.message or "").strip()
raw_text(e) == Strip(e.msg.text)

\* message = build_message(title, raw_text, link)
message_of(e) ==
    build_message(e.title, raw_text(e), build_link(e.username, e.msg.id))

\* the handler's frame is gone once it has ended
finish(e, pc) ==
    [e EXCEPT !.pc = pc, !.title = <<>>, !.username = <<>>, !.path = 0]

\* asyncio.run(main()) cancels every task still pending when main() ends
cancel_pending(evs) ==
    [i \in DOMAIN evs |->
        IF evs[i].pc \in {"get_chat", "download"}
        THEN finish(evs[i], "cancelled") ELSE evs[i]]

\* the delivery call of an image event whose file was fetched:
\* post_file_to_discord when the size is within MAX_UPLOAD_BYTES, else
\* post_text_to_discord with the notice appended
deliver_image(e, i) ==
    IF e.msg.media.size <= MAX_UPLOAD_BYTES
    THEN post_file_to_discord(e.path, message_of(e), "handler", i)
    ELSE post_text_to_discord(message_of(e) \o NOTICE, "handler", i)

\* the handler enters a delivery call
enter_call(e, c) ==
    [e EXCEPT !.pc = "posting", !.calls = @ + 1, !.fn = c.fn]

\* Telethon starts on_new_message for the next update: the handler runs to
\* its first await, event.get_chat()
Arrive ==
    /\ Idle /\ connected /\ authorized
    /\ mainpc \in {"authorize", "gather", "running"}
    /\ Arrived # DOMAIN events
    /\ \E m \in updates :
         LET i == Cardinality(Arrived) + 1 IN
         events' = [events EXCEPT
                       ![i] = [NoEvent EXCEPT !.pc = "get_chat", !.msg = m]]
    /\ UNCHANGED <<config, connected, authorized, mainpc, startCalled,
                   sawConnected, sawAuthorized, reason, err, mainPosts, call,
                   files, exitStatus>>

\* the handler from the line after get_chat() to its next await or its
\* end, e its frame with title and username set: an image is fetched into
\* a new temporary file (the next await), a text is posted, anything else
\* is ignored
route(e, i) ==
    IF classify(e.msg) \in {"photo", "image-document"}
    THEN /\ events' = [events EXCEPT
                          ![i] = [e EXCEPT !.pc = "download", !.path = i,
                                           !.fetched = TRUE]]
         /\ files' = files \cup {i}
         /\ call' = call
    ELSE IF raw_text(e) # <<>>
    THEN LET c == post_text_to_discord(message_of(e), "handler", i)
         IN /\ events' = [events EXCEPT ![i] = enter_call(e, c)]
            /\ call' = c
            /\ files' = files
    ELSE /\ events' = [events EXCEPT ![i] = finish(e, "done")]
         /\ UNCHANGED <<call, files>>

\* get_chat() returns the chat, or raises (title, username = "Telegram",
\* None); the handler builds the message and takes its branch
GetChatReturns(i) ==
    /\ Idle /\ events[i].pc = "get_chat"
    /\ \/ route([events[i] EXCEPT
                     !.title = title_of(events[i].msg.chat),
                     !.username = events[i].msg.chat.username], i)
       \/ route([events[i] EXCEPT !.title = TELEGRAM, !.username = <<>>], i)
    /\ UNCHANGED <<config, connected, authorized, mainpc, startCalled,
                   sawConnected, sawAuthorized, reason, err, mainPosts,
                   exitStatus>>

\* a handler whose exception is not contained: a failed download_media()
\* ends the run of the client and with it main()
DownloadReturns_uncontained(i) ==
    /\ Idle /\ events[i].pc = "download"
    /\ \/ /\ events' = cancel_pending([events EXCEPT ![i] = finish(@, "raised")])
          /\ mainpc' = "crashed" /\ exitStatus' = 1
          /\ UNCHANGED <<call, files>>
       \/ /\ events' = [events EXCEPT ![i] = finish(@, "raised")]
          /\ UNCHANGED <<call, files, mainpc, exitStatus>>
       \/ /\ events' = [events EXCEPT ![i] = finish(@, "raised")]
          /\ files' = files \ {events[i].path}
          /\ UNCHANGED <<call, mainpc, exitStatus>>
       \/ LET c == deliver_image(events[i], i) IN
          /\ events' = [events EXCEPT ![i] = enter_call(@, c)]
          /\ call' = c
          /\ UNCHANGED <<files, mainpc, exitStatus>>
    /\ UNCHANGED <<config, connected, authorized, startCalled,
                   sawConnected, sawAuthorized, reason, err, mainPosts>>

\* download_media() returns the path, returns None, or raises; with a path
\* the size is measured and the delivery call entered
DownloadReturns(i) ==
    /\ Idle /\ events[i].pc = "download"
    /\ \/ \* download_media() raised: the handler ends inside the with block
          /\ events' = [events EXCEPT ![i] = finish(@, "raised")]
          /\ UNCHANGED <<call, files>>
       \/ \* path is None: os.path.getsize(None) and os.remove(None) raise
          /\ events' = [events EXCEPT ![i] = finish(@, "raised")]
          /\ UNCHANGED <<call, files>>
       \/ \* os.path.getsize(path) raised: the finally block removes the file
          /\ events' = [events EXCEPT ![i] = finish(@, "raised")]
          /\ files' = files \ {events[i].path}
          /\ UNCHANGED call
       \/ LET c == deliver_image(events[i], i) IN
          /\ events' = [events EXCEPT ![i] = enter_call(@, c)]
          /\ call' = c
          /\ UNCHANGED files
    /\ UNCHANGED <<config, connected, authorized, mainpc, startCalled,
                   sawConnected, sawAuthorized, reason, err, mainPosts,
                   exitStatus>>

\* an image branch without its return: the handler goes on to the text
\* branch and posts the message again
HandlerAfterPost_fallthrough(i) ==
    /\ call.by = "handler" /\ call.ev = i
    /\ call.result \in {"ok", "exhausted", "raised"}
    /\ files' = files \ {events[i].path}
    /\ IF /\ call.result # "raised" /\ call.fn = "file"
          /\ raw_text(events[i]) # <<>>
       THEN LET c == post_text_to_discord(message_of(events[i]),
                                          "handler", i)
            IN /\ call' = c
               /\ events' = [events EXCEPT
                                ![i] = enter_call([@ EXCEPT !.path = 0], c)]
       ELSE /\ call' = NoCall
            /\ events' = [events EXCEPT
                             ![i] = finish(@, IF call.result = "raised"
                                              THEN "raised" ELSE "done")]
    /\ UNCHANGED <<config, connected, authorized, mainpc, startCalled,
                   sawConnected, sawAuthorized, reason, err, mainPosts,
                   exitStatus>>

\* the handler after its delivery call: the finally block of an image
\* branch removes the file; the handler returns, or the call's exception
\* leaves it
HandlerAfterPost(i) ==
    /\ call.by = "handler" /\ call.ev = i
    /\ call.result \in {"ok", "exhausted", "raised"}
    /\ call' = NoCall
    /\ files' = files \ {events[i].path}
    /\ events' = [events EXCEPT
                     ![i] = finish(@, IF call.result = "raised" THEN "raised"
                                      ELSE "done")]
    /\ UNCHANGED <<config, connected, authorized, mainpc, startCalled,
                   sawConnected, sawAuthorized, reason, err, mainPosts,
                   exitStatus>>

---------------------------------------------------------------------------
(* main().                                                                 *)
(*   mainpc  "import" (the module-level code); "no_targets" (SystemExit   *)
(*           there); "begin"; "start" (awaiting client.start()); "connect"         *)
(*           (awaiting wait_for(client.connect())); "authorize" (awaiting  *)
(*           is_user_authorized()); "gather" (awaiting the display         *)
(*           names); "announce_post" and "fail_post" (in                   *)
(*           post_text_to_discord); "running" (awaiting                    *)
(*           run_until_disconnected()); "failed" (returned after a         *)
(*           startup error); "stopped" (returned after running);           *)
(*           "crashed" (an exception left main())                          *)

\* the module-level code: _single and _multi are the stripped settings,
\* TARGETS = parse_targets(_single, _multi); raise SystemExit(...) with a
\* message, which is exit status 1, when there is no target
ModuleLoad ==
    /\ mainpc = "import"
    /\ LET targets == parse_targets(Strip(env.TG_CHANNEL),
                                    Strip(env.TG_CHANNELS))
       IN /\ TARGETS' = targets
          /\ IF targets = <<>>
             THEN mainpc' = "no_targets" /\ exitStatus' = 1
             ELSE mainpc' = "begin" /\ exitStatus' = exitStatus
    /\ UNCHANGED <<env, tty, updates, connected, authorized, startCalled,
                   sawConnected, sawAuthorized, reason, err, mainPosts, call,
                   events, files>>

\* a startup error that returns without the diagnostic post
Fail_silent(why, text) ==
    /\ reason' = why
    /\ err' = text
    /\ mainpc' = "failed"
    /\ UNCHANGED <<mainPosts, call>>

\* err = ...; logger.error(err); post_text_to_discord(err); return
\* (up to the call; MainAfterPost is the return)
Fail(why, text) ==
    /\ reason' = why
    /\ err' = text
    /\ mainPosts' = Append(mainPosts, "error")
    /\ call' = post_text_to_discord(text, "main", 0)
    /\ mainpc' = "fail_post"

\* if sys.stdin.isatty(): await client.start()
\* else: await asyncio.wait_for(client.connect(), timeout=15)
MainBegin ==
    /\ Idle /\ mainpc = "begin"
    /\ IF tty
       THEN mainpc' = "start" /\ startCalled' = TRUE
       ELSE mainpc' = "connect" /\ startCalled' = startCalled
    /\ UNCHANGED <<config, connected, authorized, sawConnected,
                   sawAuthorized, reason, err, mainPosts, call, events, files,
                   exitStatus>>

\* client.start() returns (the session is then connected and logged in)
\* or raises
StartReturns ==
    /\ Idle /\ mainpc = "start"
    /\ \/ /\ connected' = TRUE /\ authorized' = TRUE
          /\ mainpc' = "gather"
          /\ UNCHANGED <<reason, err, mainPosts, call>>
       \/ /\ connected' \in BOOLEAN /\ authorized' = authorized
          /\ Fail("start_error", ERR_START \o str_e)
    /\ UNCHANGED <<config, startCalled, sawConnected, sawAuthorized,
                   events, files, exitStatus>>

\* connect()'s return trusted: no is_connected() check
not_connected_ignored ==
    /\ mainpc' = "authorize"
    /\ UNCHANGED <<reason, err, mainPosts, call, sawConnected>>

\* if not client.is_connected(): err = ...; post; return
not_connected_branch ==
    /\ Fail("not_connected", ERR_NOT_CONNECTED)
    /\ UNCHANGED sawConnected

\* an unauthorized headless session falling back to the interactive login
not_authorized_prompts ==
    /\ mainpc' = "start"
    /\ startCalled' = TRUE
    /\ UNCHANGED <<reason, err, mainPosts, call, sawAuthorized>>

\* if not authed: err = ...; post; return
not_authorized_branch ==
    /\ Fail("not_authorized", ERR_NOT_AUTHORIZED)
    /\ UNCHANGED <<sawAuthorized, startCalled>>

\* client.connect() returns or raises within the timeout; then the
\* synchronous client.is_connected() check, and on success the
\* is_user_authorized() request is issued
ConnectReturns ==
    /\ Idle /\ mainpc = "connect"
    /\ \/ /\ connected' = FALSE
          /\ Fail("connect_error", ERR_CONNECT \o str_e)
          /\ UNCHANGED sawConnected
       \/ /\ connected' \in BOOLEAN
          /\ Fail("state_check_error", ERR_STATE_CHECK \o str_e)
          /\ UNCHANGED sawConnected
       \/ /\ connected' = FALSE
          /\ not_connected_branch
       \/ /\ connected' = TRUE
          /\ sawConnected' = TRUE
          /\ mainpc' = "authorize"
          /\ UNCHANGED <<reason, err, mainPosts, call>>
    /\ UNCHANGED <<config, authorized, startCalled, sawAuthorized,
                   events, files, exitStatus>>

\* asyncio.TimeoutError: connect() did not complete within the 15 seconds
\* of wait_for, whose timer cancels it
ConnectTimeout ==
    /\ Idle /\ mainpc = "connect"
    /\ Fail("connect_timeout", ERR_TIMEOUT)
    /\ UNCHANGED <<config, connected, authorized, startCalled,
                   sawConnected, sawAuthorized, events, files, exitStatus>>

\* is_user_authorized() returns the session's state or raises
AuthReturns ==
    /\ Idle /\ mainpc = "authorize"
    /\ \/ /\ Fail("auth_check_error", ERR_AUTH_CHECK \o str_e)
          /\ UNCHANGED <<sawAuthorized, startCalled>>
       \/ /\ ~authorized
          /\ not_authorized_branch
       \/ /\ authorized
          /\ sawAuthorized' = TRUE
          /\ mainpc' = "gather"
          /\ UNCHANGED <<reason, err, mainPosts, call, startCalled>>
    /\ UNCHANGED <<config, connected, authorized, sawConnected, events,
                   files, exitStatus>>

\* the gather of the display names completes; the announcement is posted
GatherReturns ==
    /\ Idle /\ mainpc = "gather"
    /\ \E ents \in [1..Len(TARGETS) -> Entities] :
         LET displays == [i \in 1..Len(TARGETS) |->
                             display_name_for_target(TARGETS[i], ents[i])]
             announce == announcement(displays)
         IN call' = post_text_to_discord(announce, "main", 0)
    /\ mainPosts' = Append(mainPosts, "announce")
    /\ mainpc' = "announce_post"
    /\ UNCHANGED <<config, connected, authorized, startCalled,
                   sawConnected, sawAuthorized, reason, err, events, files,
                   exitStatus>>

\* main() after its post_text_to_discord call: an exception of the call
\* leaves main(); after a startup error main() returns; after the
\* announcement it awaits client.run_until_disconnected()
MainAfterPost ==
    /\ call.by = "main" /\ call.result \in {"ok", "exhausted", "raised"}
    /\ call' = NoCall
    /\ IF call.result = "raised"
       THEN /\ mainpc' = "crashed" /\ exitStatus' = 1
            /\ events' = cancel_pending(events)
       ELSE IF mainpc = "fail_post"
       THEN /\ mainpc' = "failed" /\ exitStatus' = 0
            /\ events' = cancel_pending(events)
       ELSE /\ mainpc' = "running"
            /\ UNCHANGED <<exitStatus, events>>
    /\ UNCHANGED <<config, connected, authorized, startCalled,
                   sawConnected, sawAuthorized, reason, err, mainPosts, files>>

\* the session disconnects: run_until_disconnected() returns and so does
\* main()
Disconnected ==
    /\ Idle /\ mainpc = "running"
    /\ connected' = FALSE
    /\ mainpc' = "stopped"
    /\ exitStatus' = 0
    /\ events' = cancel_pending(events)
    /\ UNCHANGED <<config, authorized, startCalled, sawConnected,
                   sawAuthorized, reason, err, mainPosts, call, files>>

---------------------------------------------------------------------------
(* The updates of the runs explored.                                       *)

TextHi == <<" ", "h", "i", " ">>

TextBlank == <<" ">>

\* a text long enough for the message to reach CONTENT_LIMIT
TextLong == Rep("x", LongLen)

MimePng == <<"i", "m", "a", "g", "e", "/", "p", "n", "g">>

MimeMp4 == <<"v", "i", "d", "e", "o", "/", "m", "p", "4">>

MimeImage == <<"i", "m", "a", "g", "e">>

ChatCh == Chat(<<"C", "h">>, <<"c", "h">>)

\* a text message, a photo with a caption, a video without text
SomeMsgs ==
    { Msg(TextHi, 7, NoMedia, ChatCh),
      Msg(TextHi, 7, Media("photo", <<>>, 1024), ChatCh),
      Msg(<<>>, 7, Media("document", MimeMp4, 1024), ChatCh) }

\* every kind of media, with the sizes around MAX_UPLOAD_BYTES for the
\* images
AllMedia ==
    { NoMedia,
      Media("document", MimeMp4, 1024),
      Media("document", MimeImage, 1024),
      Media("document", <<>>, 1024),
      Media("other", <<>>, 0) }
      \cup { Media(t[1], t[2], s) :
               t \in {<<"photo", <<>>>>, <<"document", MimePng>>},
               s \in {MAX_UPLOAD_BYTES, MAX_UPLOAD_BYTES + 1} }

AllMsgs ==
    { Msg(text, 7, media, chat) :
        text \in {<<>>, TextBlank, TextHi, TextLong},
        media \in AllMedia,
        chat \in {ChatCh, Chat(<<"C", "h">>, <<>>),
                  Chat(<<>>, <<"b", "o", "b">>)} }

---------------------------------------------------------------------------
(* The whole program: main() and the handlers.                             *)

Init ==
    /\ env \in {EnvTwoChannels, EnvNoChannel}
    /\ tty \in BOOLEAN
    /\ TARGETS = <<>>
    /\ updates = SomeMsgs
    /\ connected = FALSE
    /\ authorized \in BOOLEAN
    /\ mainpc = "import"
    /\ startCalled = FALSE
    /\ sawConnected = FALSE
    /\ sawAuthorized = FALSE
    /\ reason = ""
    /\ err = <<>>
    /\ mainPosts = <<>>
    /\ call = NoCall
    /\ events = [i \in 1..MaxEvents |-> NoEvent]
    /\ files = {}
    /\ exitStatus = 0 - 1

Next ==
    \/ ModuleLoad
    \/ MainBegin
    \/ StartReturns
    \/ ConnectReturns
    \/ ConnectTimeout
    \/ AuthReturns
    \/ GatherReturns
    \/ MainAfterPost
    \/ Disconnected
    \/ DeliveryAttempt
    \/ Arrive
    \/ \E i \in DOMAIN events : GetChatReturns(i)
    \/ \E i \in DOMAIN events : DownloadReturns(i)
    \/ \E i \in DOMAIN events : HandlerAfterPost(i)

Spec == Init /\ [][Next]_vars

(* The steps the program is sure to take.  The event loop resumes main()   *)
(* and runs the synchronous code after a delivery call; requests.post has  *)
(* a timeout and time.sleep ends, so a delivery loop goes on; wait_for's   *)
(* timer fires when connect() has not returned; the requests behind        *)
(* is_user_authorized() and get_entity() end by the client's own           *)
(* timeout=8 and request_retries=2.  Nothing bounds client.start(), which  *)
(* main() awaits bare, nor get_chat() and download_media().                *)
Fairness ==
    /\ WF_vars(ModuleLoad)
    /\ WF_vars(MainBegin)
    /\ WF_vars(ConnectTimeout)
    /\ WF_vars(AuthReturns)
    /\ WF_vars(GatherReturns)
    /\ WF_vars(DeliveryAttempt)
    /\ WF_vars(MainAfterPost)
    /\ WF_vars(\E i \in DOMAIN events : HandlerAfterPost(i))

FairSpec == Spec /\ Fairness

---------------------------------------------------------------------------
(* One run of on_new_message, over every update: main() has started up     *)
(* headless and awaits run_until_disconnected(), and one update arrives.   *)

InitHandler ==
    /\ env = EnvTwoChannels
    /\ tty = FALSE
    /\ TARGETS \in TargetLists
    /\ updates = AllMsgs
    /\ connected = TRUE
    /\ authorized = TRUE
    /\ mainpc = "running"
    /\ startCalled = FALSE
    /\ sawConnected = TRUE
    /\ sawAuthorized = TRUE
    /\ reason = ""
    /\ err = <<>>
    /\ mainPosts = <<"announce">>
    /\ call = NoCall
    /\ events = <<NoEvent>>
    /\ files = {}
    /\ exitStatus = 0 - 1

NextHandler ==
    \/ Arrive
    \/ \E i \in DOMAIN events : GetChatReturns(i)
    \/ \E i \in DOMAIN events : DownloadReturns(i)
    \/ \E i \in DOMAIN events : HandlerAfterPost(i)
    \/ DeliveryAttempt

SpecHandler == InitHandler /\ [][NextHandler]_vars


---------------------------------------------------------------------------
(* The module-level code alone, over every channel setting of up to        *)
(* MaxChars characters: TG_CHANNELS, or TG_CHANNEL with TG_CHANNELS unset. *)

InitTargets ==
    /\ env \in {Env(<<>>, m) : m \in EnvStrings(MaxChars)}
                 \cup {Env(s, <<>>) : s \in EnvStrings(MaxChars)}
    /\ tty = FALSE
    /\ TARGETS = <<>>
    /\ updates = {}
    /\ connected = FALSE
    /\ authorized = FALSE
    /\ mainpc = "import"
    /\ startCalled = FALSE
    /\ sawConnected = FALSE
    /\ sawAuthorized = FALSE
    /\ reason = ""
    /\ err = <<>>
    /\ mainPosts = <<>>
    /\ call = NoCall
    /\ events = <<>>
    /\ files = {}
    /\ exitStatus = 0 - 1

NextTargets == ModuleLoad

SpecTargets == InitTargets /\ [][NextTargets]_vars
---------------------------------------------------------------------------
(* The lifecycle of section 4.1, read off main()'s position.               *)

Lifecycle ==
    IF reason # "" THEN "Failed"
    ELSE CASE mainpc \in {"import", "begin"} -> "Idle"
           [] mainpc \in {"start", "connect"} -> "Connecting"
           [] mainpc = "authorize" -> "Verifying"
           [] mainpc \in {"gather", "announce_post"} -> "Authorized"
           [] mainpc = "running" -> "Running"
           [] OTHER -> "Ended"

\* main() has left by a startup error, or is in that error's post
FailedPcs == {"fail_post", "failed", "crashed"}

---------------------------------------------------------------------------
(* Claims.                                                                 *)

\* C1: in headless mode main() never issues client.start(), whatever
\* connect(), is_connected() and is_user_authorized() do; once connect has
\* succeeded and the session is not authorized, the lifecycle is Failed
\* with exactly one diagnostic post and is never Running.
C1_HeadlessNeverPrompts ==
    ~tty =>
      /\ ~startCalled
      /\ mainpc # "start"
      /\ (sawConnected /\ ~authorized /\ mainpc # "authorize") =>
            /\ reason \in {"not_authorized", "auth_check_error"}
            /\ Lifecycle = "Failed"
            /\ mainpc \in FailedPcs
            /\ mainPosts = <<"error">>
      /\ reason = "not_authorized" =>
            /\ sawConnected /\ ~authorized
            /\ err = ERR_NOT_AUTHORIZED

\* headless, connected, unauthorized: main() has returned after its post
C1_Witness ==
    /\ ~tty /\ sawConnected /\ ~authorized
    /\ reason = "not_authorized" /\ mainpc = "failed"

\* C2 as claimed: whenever the lifecycle is Running, main() has seen both
\* is_connected() and is_user_authorized() return True, on the attended
\* path as well.
C2_ChecksSeenOnEveryPath ==
    mainpc = "running" => sawConnected /\ sawAuthorized

\* C2 amended: Running on the headless path has seen both checks return
\* True; Running on the attended path follows a client.start() that
\* returned without raising, and main() makes neither check there.
C2_ChecksSeenWhenHeadless ==
    mainpc = "running" =>
      IF tty
      THEN startCalled /\ reason = "" /\ ~sawConnected /\ ~sawAuthorized
      ELSE sawConnected /\ sawAuthorized /\ ~startCalled

C2_Witness == mainpc = "running" /\ ~tty /\ sawConnected /\ sawAuthorized

\* the text main() builds on each failure path
ReasonText(r) ==
    CASE r = "start_error" -> ERR_START \o str_e
      [] r = "connect_timeout" -> ERR_TIMEOUT
      [] r = "connect_error" -> ERR_CONNECT \o str_e
      [] r = "not_connected" -> ERR_NOT_CONNECTED
      [] r = "state_check_error" -> ERR_STATE_CHECK \o str_e
      [] r = "auth_check_error" -> ERR_AUTH_CHECK \o str_e
      [] r = "not_authorized" -> ERR_NOT_AUTHORIZED

FailurePaths ==
    {"start_error", "connect_timeout", "connect_error", "not_connected",
     "state_check_error", "auth_check_error", "not_authorized"}

C4_EventuallyRunningOrFailed ==
    <>(\/ mainpc = "running"
       \/ mainpc = "no_targets"
       \/ mainpc = "crashed"
       \/ Lifecycle = "Failed" /\ mainPosts = <<"error">>)

\* a response the delivery functions take for a success
Success(r) == ~r.exc /\ r.status >= 200 /\ r.status < 300

\* C5: one delivery call issues at most 5 POSTs, 429 answers included,
\* issues none after a success, and ends: each iteration ends the call or
\* moves to the next of the 5 loop indexes.
C5_AtMostFivePosts ==
    /\ [](/\ call.posts <= 5
          /\ call.result = "running" => call.attempt < 5
          /\ Success(call.last) => call.result = "ok")
    /\ [][(call.result = "running" /\ call' # call) =>
            /\ call'.posts <= call.posts + 1
            /\ \/ call'.result # "running"
               \/ call'.attempt = call.attempt + 1]_vars

\* a file upload answered 429 five times: five POSTs, then the return
C5_Witness ==
    /\ call.fn = "file" /\ call.posts = 5 /\ call.result = "exhausted"
    /\ call.last.status = 429

\* C6 as claimed: whatever the sink answers, a delivery call returns
\* normally and never raises.
C6_NeverRaises == call.result # "raised"

\* C7 as claimed: deliveries happen in arrival order, one update at a time:
\* while the delivery call of update N is in progress, no later update has
\* had a delivery call.
C7_DeliveredInArrivalOrder ==
    \A i, j \in DOMAIN events :
        (i < j /\ events[i].pc = "posting") => events[j].calls = 0

\* C8: one run of on_new_message makes at most one delivery call.
C8_AtMostOneCall ==
    \A i \in DOMAIN events : events[i].calls <= 1

\* an image with a caption was uploaded and the handler has returned
C8_Witness ==
    \E i \in DOMAIN events :
        /\ events[i].pc = "done" /\ events[i].calls = 1
        /\ events[i].fn = "file" /\ raw_text(events[i]) # <<>>

\* C9 as claimed: a fetched image of size s <= MAX_UPLOAD_BYTES is
\* delivered as an attachment with the caption; one of size
\* s >= MAX_UPLOAD_BYTES + 1 is delivered as text, and the content
\* transmitted ends with the oversize notice.
C9_SizeBoundary ==
    \A i \in DOMAIN events :
        (events[i].pc = "posting" /\ events[i].fetched) =>
          IF events[i].msg.media.size <= 8 * 1024 * 1024
          THEN /\ call.fn = "file" /\ call.path = events[i].path
               /\ call.content = Take(message_of(events[i]), 2000)
          ELSE /\ call.fn = "text"
               /\ EndsWith(call.content, NOTICE)

\* C10: routing is total and exclusive.  An update is fetched as an image
\* exactly when its media is a photo or a document whose MIME type begins
\* with "image/"; any other document is never fetched or uploaded; without
\* image media the update is posted as text exactly when its stripped text
\* is not empty, and with no text it causes no delivery call.
C10_Routing ==
    \A i \in DOMAIN events :
        LET e == events[i]
            img == \/ e.msg.media.type = "photo"
                   \/ /\ e.msg.media.type = "document"
                      /\ StartsWith(e.msg.media.mime, IMAGE_SLASH)
            has_text == Strip(e.msg.text) # <<>>
        IN e.pc \in {"download", "posting", "done", "raised"} =>
             /\ e.fetched <=> img
             /\ ~img => /\ e.fn # "file"
                        /\ (e.calls = 1 /\ e.fn = "text") <=> has_text
                        /\ ~has_text => e.calls = 0 /\ e.pc = "done"

\* a video without text was ignored: no fetch, no delivery call
C10_Witness ==
    \E i \in DOMAIN events :
        /\ events[i].pc = "done" /\ events[i].calls = 0
        /\ ~events[i].fetched
        /\ events[i].msg.media = Media("document", MimeMp4, 1024)
        /\ events[i].msg.text = <<>>


\* C11 as claimed: the startup announcement is posted exactly once, and no
\* handler starts a delivery call before the announcement's
\* post_text_to_discord call has returned.
C11_AnnouncementFirst ==
    /\ mainpc \in {"running", "stopped"} => mainPosts = <<"announce">>
    /\ \A i \in DOMAIN events :
         events[i].calls > 0 => mainpc \in {"running", "stopped"}

\* the delivery call on_new_message makes for an update, from the update
\* and the handler's own title and username alone
own_call(e, i) ==
    IF classify(e.msg) \in {"photo", "image-document"}
    THEN deliver_image(e, i)
    ELSE post_text_to_discord(message_of(e), "handler", i)

\* the handler of update i ends on an error: an exception leaves it, or
\* its delivery call has used up its attempts
EndsOnError(i) ==
    /\ events[i].pc \in {"get_chat", "download", "posting"}
    /\ \/ events'[i].pc = "raised"
       \/ events'[i].pc = "done" /\ call.result = "exhausted"

\* C12: an error local to one update's handling stays in that handler.
\* The step that ends a handler on an error leaves main(), the process and
\* every other handler as they were, and each update is delivered by the
\* call its own content asks for, whatever happened to the others.
C12_ErrorsContained ==
    /\ [](\A i \in DOMAIN events :
            events[i].pc = "posting" =>
              /\ call.by = "handler" /\ call.ev = i
              /\ call.fn = own_call(events[i], i).fn
              /\ call.content = own_call(events[i], i).content
              /\ call.path = own_call(events[i], i).path)
    /\ [][\A i \in DOMAIN events :
            EndsOnError(i) =>
              /\ mainpc' = mainpc /\ exitStatus' = exitStatus
              /\ connected' = connected
              /\ \A j \in DOMAIN events \ {i} : events'[j] = events[j]]_vars

\* the first update's download failed; the second, a text message, was
\* delivered afterwards while main() goes on running
C12_Witness ==
    /\ MaxEvents >= 2
    /\ events[1].pc = "raised" /\ events[1].fetched /\ events[1].calls = 0
    /\ events[2].pc = "done" /\ events[2].calls = 1 /\ events[2].fn = "text"
    /\ mainpc = "running" /\ exitStatus = 0 - 1

\* C13 as claimed: the process exits with a non-zero status when the
\* resolved target set is empty, and with status 0 only after Running was
\* reached and the session then disconnected.
C13_ExitStatus ==
    /\ (mainpc # "import" /\ TARGETS = <<>>) =>
          mainpc = "no_targets" /\ exitStatus > 0
    /\ exitStatus = 0 => mainpc = "stopped"

\* no target value occurs twice in a list
NoDuplicates(ts) ==
    \A i, j \in 1..Len(ts) : ts[i] = ts[j] => i = j

\* C14 as claimed: parse_targets returns a deduplicated list, for every
\* channel setting, and the process exits at once when the list is empty.
C14_Deduplicated ==
    mainpc # "import" =>
      /\ NoDuplicates(TARGETS)
      /\ TARGETS = <<>> => mainpc = "no_targets" /\ exitStatus = 1

\* the wait the specification asks for after a 429 answer: its Retry-After
\* in seconds, 1 second when the header is absent or does not parse
RetryAfterWait(r) ==
    IF float(headers_get(r, "1")).ok THEN float(headers_get(r, "1")).ms
    ELSE 1000

\* C15 as claimed: after a 429 answer the call sleeps the Retry-After
\* value (1 second when the header is absent or unparseable), once and
\* without the linear backoff, and goes on to the next attempt; after any
\* other failed attempt, of index i, it sleeps 1 + i seconds.
C15_RetryAfterWait ==
    (call.posts > 0 /\ ~Success(call.last)) =>
      IF ~call.last.exc /\ call.last.status = 429
      THEN /\ call.result \in {"running", "exhausted"}
           /\ call.slept = <<RetryAfterWait(call.last)>>
           /\ call.attempt = call.posts
      ELSE /\ call.result \in {"running", "exhausted"}
           /\ call.slept = <<1000 * call.attempt>>
           /\ call.attempt = call.posts

\* C16 as claimed: a delivery call that has used all its attempts without
\* a success has logged a failure (an error record) before it returns,
\* and a call that succeeded has logged none.
C16_TerminalFailureLogged ==
    /\ call.result = "exhausted" =>
          \E k \in DOMAIN call.logged : call.logged[k].level = "error"
    /\ call.result = "ok" => call.logged = <<>>

\* C17 as claimed: once the handling of an image update has ended,
\* whatever its outcome, the temporary file created for it is gone.
C17_TempFileRemoved ==
    \A i \in DOMAIN events :
        (events[i].fetched /\ events[i].pc \in {"done", "raised"}) =>
           i \notin files

\* C18 as claimed: at most one update at a time holds a temporary file: no
\* two handlers in progress have their files on disk together.
C18_OneBufferAtATime ==
    \A i, j \in DOMAIN events :
        (/\ events[i].path # 0 /\ events[i].path \in files
         /\ events[j].path # 0 /\ events[j].path \in files) => i = j

\* C19 as claimed: in attended mode, when client.start() fails, the
\* lifecycle is Failed and the session has been disconnected by the time
\* main() has ended.
C19_DisconnectAfterStartError ==
    (reason = "start_error" /\ mainpc \in {"failed", "crashed"}) =>
       /\ tty /\ Lifecycle = "Failed"
       /\ ~connected

\* C20: a delivery call is atomic for the event loop.  From its start to
\* its return only the call itself takes steps, for the same caller and
\* the same request; no other handler moves, main() moves only to take the
\* return of its own call, and no other delivery call starts.
C20_DeliveryAtomic ==
    [][call.fn # "none" =>
         /\ call.result = "running" =>
              /\ events' = events /\ mainpc' = mainpc /\ files' = files
              /\ call'.fn = call.fn /\ call'.content = call.content
              /\ call'.path = call.path
              /\ call'.posts \in {call.posts, call.posts + 1}
         /\ call'.fn # "none" => call'.by = call.by /\ call'.ev = call.ev
         /\ call.by = "handler" =>
              /\ mainpc' = mainpc
              /\ \A j \in DOMAIN events \ {call.ev} : events'[j] = events[j]
         /\ call.by = "main" =>
              \A j \in DOMAIN events :
                 \/ events'[j] = events[j]
                 \/ exitStatus' # 0 - 1 /\ events'[j].pc = "cancelled"]_vars

\* a handler is in the retry loop of its call, two POSTs made, while
\* another handler waits in download_media() and main() in the gather
C20_Witness ==
    \E i, j \in DOMAIN events :
        /\ i # j
        /\ events[i].pc = "posting" /\ call.by = "handler" /\ call.ev = i
        /\ call.result = "running" /\ call.posts >= 2
        /\ events[j].pc = "download"
        /\ mainpc = "gather"
====
